---- MODULE Spec2Model ----
(***************************************************************************)
(* Model of bubbles/backends/xlsx.py: XLSXObject, the spreadsheet data     *)
(* object.  The constructor computes first_row and the field list          *)
(* (supplied or inferred from the sheet), rows() and records() are Python  *)
(* generators scanning the sheet, __len__ counts the sheet's rows.         *)
(*                                                                         *)
(* Python values are records [kind, s, n]; text is a sequence of           *)
(* one-character strings, so that str(), split() and join() are computed.  *)
(* Python indexes are zero based, TLA+ sequences one based: the physical   *)
(* row with index i is sheet[i + 1].                                       *)
(***************************************************************************)
EXTENDS Integers, Sequences, FiniteSets, TLC

\* Bounds of the model.
MaxRows == 3
MaxSkip == 1

Min(a, b) == IF a < b THEN a ELSE b

--------------------------------------------------------------------------
\* Cell values (openpyxl's Cell.value): None, str, number, bool.

VNone == [kind |-> "none", s |-> <<>>, n |-> 0]
VStr(t) == [kind |-> "str", s |-> t, n |-> 0]
VNum(k) == [kind |-> "num", s |-> <<>>, n |-> k]
VBool(b) == [kind |-> "bool", s |-> <<>>, n |-> IF b THEN 1 ELSE 0]

\* Python truth value of a cell value, as any(values) tests it.
Truthy(v) ==
    CASE v.kind = "none" -> FALSE
      [] v.kind = "str" -> Len(v.s) > 0
      [] v.kind = "num" -> v.n # 0
      [] v.kind = "bool" -> v.n # 0

Digits == <<"0", "1", "2", "3", "4", "5", "6", "7", "8", "9">>

\* Decimal text of a natural number.
RECURSIVE NatStr(_)
NatStr(k) == IF k < 10 THEN <<Digits[k + 1]>>
             ELSE NatStr(k \div 10) \o <<Digits[(k % 10) + 1]>>

\* str(c.value)
PyStr(v) ==
    CASE v.kind = "none" -> <<"N", "o", "n", "e">>
      [] v.kind = "str" -> v.s
      [] v.kind = "num" -> NatStr(v.n)
      [] v.kind = "bool" -> IF v.n # 0 THEN <<"T", "r", "u", "e">>
                            ELSE <<"F", "a", "l", "s", "e">>

Whitespace == {" ", "\n", "\t"}

\* str.split(): the maximal runs of non-whitespace characters.
RECURSIVE SplitFrom(_, _, _)
SplitFrom(t, i, cur) ==
    IF i > Len(t) THEN (IF cur = <<>> THEN <<>> ELSE <<cur>>)
    ELSE IF t[i] \in Whitespace
         THEN (IF cur = <<>> THEN SplitFrom(t, i + 1, <<>>)
               ELSE <<cur>> \o SplitFrom(t, i + 1, <<>>))
         ELSE SplitFrom(t, i + 1, Append(cur, t[i]))

PySplit(t) == SplitFrom(t, 1, <<>>)

\* ' '.join(words)
RECURSIVE PyJoin(_)
PyJoin(words) ==
    IF words = <<>> THEN <<>>
    ELSE IF Len(words) = 1 THEN words[1]
    ELSE words[1] \o <<" ">> \o PyJoin(Tail(words))

\* str(c.value), the whitespace left as it is.
HeaderNameRaw(c) == PyStr(c.value)

\* ' '.join(str(c.value).split())
HeaderName(c) == PyJoin(PySplit(PyStr(c.value)))

\* 'col%d' % i
ColName(i) == <<"c", "o", "l">> \o NatStr(i)

--------------------------------------------------------------------------
\* Cells: value, is_date, data_type (openpyxl's one-letter type tags).

TYPE_STRING == "s"
TYPE_FORMULA == "f"
TYPE_NUMERIC == "n"
TYPE_BOOL == "b"
TYPE_INLINE == "inlineStr"
TYPE_FORMULA_CACHE_STRING == "str"
TYPE_ERROR == "e"
TYPE_DATE == "d"

Tags == {TYPE_STRING, TYPE_FORMULA, TYPE_NUMERIC, TYPE_BOOL, TYPE_INLINE,
         TYPE_FORMULA_CACHE_STRING, TYPE_ERROR, TYPE_DATE}

\* The CELL_TYPES dictionary.
CELL_TYPES ==
    (TYPE_STRING :> "string") @@ (TYPE_FORMULA :> "unknown") @@
    (TYPE_NUMERIC :> "float") @@ (TYPE_BOOL :> "boolean") @@
    (TYPE_INLINE :> "string") @@ (TYPE_FORMULA_CACHE_STRING :> "string")

\* The storage type with the date flag ignored.
StorageTypeNoDate(cell) ==
    IF cell.data_type \in DOMAIN CELL_TYPES THEN CELL_TYPES[cell.data_type]
    ELSE "unknown"

\* storage type of a reference-row cell
StorageType(cell) ==
    IF cell.is_date THEN "date"
    ELSE IF cell.data_type \in DOMAIN CELL_TYPES THEN CELL_TYPES[cell.data_type]
    ELSE "unknown"

MkCell(v, d, t) == [value |-> v, is_date |-> d, data_type |-> t]

\* A cell as the workbook reader tags a plain value.
Plain(v) ==
    MkCell(v, FALSE,
           CASE v.kind = "str" -> TYPE_STRING
             [] v.kind = "bool" -> TYPE_BOOL
             [] OTHER -> TYPE_NUMERIC)

Field(name, storage_type) == [name |-> name, storage_type |-> storage_type]

\* FieldList.names()
Names(fl) == [i \in 1..Len(fl) |-> fl[i].name]

\* for name, cell in zip(names, first_row): Field(name, storage_type)
ZipFields(names, row) ==
    [i \in 1..Min(Len(names), Len(row)) |-> Field(names[i], StorageType(row[i]))]

--------------------------------------------------------------------------
\* The state: the constructor's arguments, the object's attributes, the
\* generators handed out by rows() and records(), the last __len__ result.

VARIABLES
    sheet,            \* self.sheet: the rows of the selected sheet
    skip_rows,        \* argument skip_rows
    has_header,       \* argument has_header
    stop_empty_line,  \* self.stop_empty_line
    fields_arg,       \* argument fields: [given, list]; given = FALSE is None
    state,            \* "new" before __init__, then "ready" or "error"
    first_row,        \* self.first_row
    fields,           \* self.fields
    init_reads,       \* sheet rows read by __init__
    scans,            \* the generators, by caller
    len_result        \* [called, value]: what __len__ last returned

vars == <<sheet, skip_rows, has_header, stop_empty_line, fields_arg, state,
          first_row, fields, init_reads, scans, len_result>>

config == <<sheet, skip_rows, has_header, stop_empty_line, fields_arg>>

ScanIds == {1, 2}

\* A caller that holds no generator.
NoScan == [pc |-> "none", kind |-> "none", cursor |-> 0,
           rows_out |-> <<>>, recs_out |-> <<>>]

NotGiven == [given |-> FALSE, list |-> <<>>]
Given(fl) == [given |-> TRUE, list |-> fl]

\* `if fields:` -- None and an empty field list are both false.
FieldsSupplied(arg) == arg.given /\ Len(arg.list) > 0

\* self.first_row
FirstRow(hdr, skip) == IF hdr THEN skip + 1 ELSE skip

\* names of the inferred fields
InferNames(sh, fr, hdr) ==
    IF hdr THEN [i \in 1..Len(sh[fr]) |-> HeaderName(sh[fr][i])]
    ELSE [i \in 1..Len(sh[fr + 1]) |-> ColName(i - 1)]

\* The constructor, from `if has_header:` on.  next(dropwhile(...)) on a
\* sheet without a row at first_row raises StopIteration out of it.
Construct ==
    /\ state = "new"
    /\ LET fr == FirstRow(has_header, skip_rows) IN
        /\ first_row' = fr
        /\ IF FieldsSupplied(fields_arg)
           THEN /\ fields' = fields_arg.list
                /\ init_reads' = 0
                /\ state' = "ready"
           ELSE IF Len(sheet) <= fr
           THEN /\ fields' = <<>>
                /\ init_reads' = Len(sheet)
                /\ state' = "error"
           ELSE /\ fields' = ZipFields(InferNames(sheet, fr, has_header),
                                       sheet[fr + 1])
                /\ init_reads' = (fr + 1) + (IF has_header THEN fr ELSE 0)
                /\ state' = "ready"
    /\ UNCHANGED <<config, scans, len_result>>

--------------------------------------------------------------------------
\* rows(), records() and __len__.

\* values = [c.value for c in row[:field_count]]
RowValues(row, field_count) ==
    [i \in 1..Min(field_count, Len(row)) |-> row[i].value]

\* all(values) in the place of any(values)
AllValues(values) == \A i \in 1..Len(values) : Truthy(values[i])

\* any(values)
AnyValue(values) == \E i \in 1..Len(values) : Truthy(values[i])

\* dict(zip(fields, row)) keeping the first value of a repeated name
DictFirstWins(names, row) ==
    LET n == Min(Len(names), Len(row))
        keys == {names[i] : i \in 1..n}
    IN [k \in keys |->
          row[CHOOSE i \in 1..n :
                /\ names[i] = k
                /\ \A j \in 1..n : names[j] = k => i <= j]]

\* dict(zip(fields, row)): a later pair replaces an earlier one of its name
Dict(names, row) ==
    LET n == Min(Len(names), Len(row))
        keys == {names[i] : i \in 1..n}
    IN [k \in keys |->
          row[CHOOSE i \in 1..n :
                /\ names[i] = k
                /\ \A j \in 1..n : names[j] = k => j <= i]]

\* One cursor shared by every pass: a pass starts where the others stand.
IterStartShared(sc) ==
    CHOOSE c \in {sc[s].cursor : s \in DOMAIN sc} :
        \A s \in DOMAIN sc : sc[s].cursor <= c

\* enumerate(self.sheet.rows): each pass has its own cursor, at the start
IterStart(sc) == 0

\* dropwhile with <= in the place of <: the row at first_row is dropped too
DropWhileInclusive(start, fr) == Min(start + fr + 1, Len(sheet))

\* dropwhile(lambda x: x[0] < self.first_row, rows): the rows consumed
\* before the first one kept, on a pass that starts at row `start`
DropWhile(start, fr) == Min(start + fr, Len(sheet))

\* next() on a rows() generator: the body runs to its next yield, to its
\* end, or to the raise.  A generator's body does not run before the first
\* next().
RowsStep(sc) ==
    IF sc.pc = "created" /\ Len(fields) = 0
    THEN [sc EXCEPT !.pc = "raised"]
    ELSE LET cur == IF sc.pc = "created"
                    THEN DropWhile(IterStart(scans), first_row)
                    ELSE sc.cursor
         IN IF cur >= Len(sheet)
            THEN [sc EXCEPT !.pc = "done", !.cursor = cur]
            ELSE LET values == RowValues(sheet[cur + 1], Len(fields)) IN
                 IF stop_empty_line /\ ~AnyValue(values)
                 THEN [sc EXCEPT !.pc = "done", !.cursor = cur + 1]
                 ELSE [sc EXCEPT !.pc = "suspended", !.cursor = cur + 1,
                                 !.rows_out = Append(@, values)]

\* next() on a records() generator: it pulls its own rows() generator and
\* yields the row's dictionary.
RecordsStep(sc) ==
    LET r == RowsStep(sc) IN
    IF r.pc = "suspended"
    THEN [r EXCEPT !.recs_out =
            Append(@, Dict(Names(fields), r.rows_out[Len(r.rows_out)]))]
    ELSE r

\* it = obj.rows(): a generator object, none of its body run
CallRows(s) ==
    /\ state = "ready"
    /\ scans[s].pc = "none"
    /\ scans' = [scans EXCEPT ![s] = [NoScan EXCEPT !.pc = "created",
                                                   !.kind = "rows"]]
    /\ UNCHANGED <<config, state, first_row, fields, init_reads, len_result>>

\* it = obj.records()
CallRecords(s) ==
    /\ state = "ready"
    /\ scans[s].pc = "none"
    /\ scans' = [scans EXCEPT ![s] = [NoScan EXCEPT !.pc = "created",
                                                   !.kind = "records"]]
    /\ UNCHANGED <<config, state, first_row, fields, init_reads, len_result>>

\* next(it)
Pull(s) ==
    /\ state = "ready"
    /\ scans[s].pc \in {"created", "suspended"}
    /\ scans' = [scans EXCEPT ![s] = IF scans[s].kind = "rows"
                                     THEN RowsStep(scans[s])
                                     ELSE RecordsStep(scans[s])]
    /\ UNCHANGED <<config, state, first_row, fields, init_reads, len_result>>

\* The caller drops its generator, finished or not.
Abandon(s) ==
    /\ scans[s].pc # "none"
    /\ scans' = [scans EXCEPT ![s] = NoScan]
    /\ UNCHANGED <<config, state, first_row, fields, init_reads, len_result>>

\* _nrows() less the skipped rows only
LenValueSkipOnly(sh, fr) == Len(sh) - skip_rows

\* self._nrows() - self.first_row
LenValue(sh, fr) == Len(sh) - fr

\* obj.__len__()
QueryLen ==
    /\ state = "ready"
    /\ len_result' = [called |-> TRUE, value |-> LenValue(sheet, first_row)]
    /\ UNCHANGED <<config, state, first_row, fields, init_reads, scans>>

--------------------------------------------------------------------------
\* Sheets and arguments the model starts from.

SeqsUpTo(S, n) == UNION {[1..k -> S] : k \in 0..n}

CA == Plain(VStr(<<"a">>))
CB == Plain(VStr(<<"b">>))
COne == Plain(VNum(1))
CNone == Plain(VNone)
CEmpty == Plain(VStr(<<>>))
CZero == Plain(VNum(0))
CFalse == Plain(VBool(FALSE))

\* Rows of mixed width: no cell, all cells empty, empty cells before a
\* value, values only.
ScanRows == {<<>>, <<CA, CB>>, <<CNone, CB>>, <<CZero, CFalse, COne>>, <<CEmpty>>}

FA == Field(<<"a">>, "string")
FB == Field(<<"b">>, "float")

\* The fields argument: None, an empty list, lists with distinct and with
\* repeated names.
ScanFieldArgs == {NotGiven, Given(<<>>), Given(<<FA, FB>>), Given(<<FA, FA>>)}

\* Header cells: text with runs of blanks, tabs and line breaks inside and
\* at the ends, and values that are not text.
HeaderCells ==
    {Plain(VStr(<<"a", " ", " ", "b">>)),
     Plain(VStr(<<" ", "a", "\n", " ", "b", "\t">>)),
     Plain(VStr(<<"a", "b", " ">>)),
     Plain(VStr(<<"\n">>)),
     CNone, Plain(VNum(12)), Plain(VBool(TRUE))}

HeaderRows ==
    {<<>>} \cup {<<c>> : c \in HeaderCells} \cup {<<c, CA>> : c \in HeaderCells}
           \cup {<<CA, CB, CA>>}

\* Reference-row cells: every type tag with the date flag set and clear.
TypeCells == {MkCell(VNum(1), d, t) : d \in BOOLEAN, t \in Tags}

TypeRows ==
    {<<>>} \cup {<<c>> : c \in TypeCells} \cup {<<CA, c>> : c \in TypeCells}
           \cup {<<CA, CB, COne>>}

InferSheets ==
    LET two == {<<h, CASE Len(h) = 0 -> <<CA>> [] Len(h) = 1 -> <<CA, CB>>
                         [] Len(h) = 2 -> <<CB>> [] OTHER -> <<CA, COne>>>> :
                   h \in HeaderRows}
               \cup {<<<<CA, CB>>, r>> : r \in TypeRows}
    IN two \cup {<<<<CNone>>>> \o sh : sh \in two}

ConcRows == {<<CA, CB>>, <<CNone>>, <<CB>>}

InitWith(Sheets, FieldArgs) ==
    /\ sheet \in Sheets
    /\ skip_rows \in 0..MaxSkip
    /\ has_header \in BOOLEAN
    /\ stop_empty_line \in BOOLEAN
    /\ fields_arg \in FieldArgs
    /\ state = "new"
    /\ first_row = 0
    /\ fields = <<>>
    /\ init_reads = 0
    /\ scans = [s \in ScanIds |-> NoScan]
    /\ len_result = [called |-> FALSE, value |-> 0]

Init == InitWith(SeqsUpTo(ScanRows, MaxRows), ScanFieldArgs)

InitInfer == InitWith(InferSheets, {NotGiven, Given(<<FA>>)})

InitConc == InitWith(SeqsUpTo(ConcRows, MaxRows), {NotGiven, Given(<<FA>>)})

\* One caller.
Next ==
    \/ Construct
    \/ CallRows(1)
    \/ CallRecords(1)
    \/ Pull(1)
    \/ Abandon(1)
    \/ QueryLen

\* Several callers, their steps interleaved.
NextConc ==
    \/ Construct
    \/ \E s \in ScanIds : CallRows(s)
    \/ \E s \in ScanIds : CallRecords(s)
    \/ \E s \in ScanIds : Pull(s)
    \/ \E s \in ScanIds : Abandon(s)
    \/ QueryLen

Spec == Init /\ [][Next]_vars

SpecInfer == InitInfer /\ [][Next]_vars

SpecConc == InitConc /\ [][NextConc]_vars

--------------------------------------------------------------------------
\* Vocabulary of the properties.

\* The generators that exist.
Live == {s \in ScanIds : scans[s].pc # "none"}

\* The physical row with zero-based index i.
PhysRow(i) == sheet[i + 1]

\* The constructor inferred the schema from the sheet.
Inferred == state = "ready" /\ ~FieldsSupplied(fields_arg)

\* The values the specification counts as empty.
EmptyValues == {VNone, VStr(<<>>), VNum(0), VBool(FALSE)}

\* The first n values of the row at index i are all empty.
EmptyRow(i, n) ==
    \A j \in 1..Len(PhysRow(i)) : j <= n => PhysRow(i)[j].value \in EmptyValues

\* The rows a scan yields when it runs alone to its end, from index i on.
RECURSIVE SoloFrom(_)
SoloFrom(i) ==
    IF i >= Len(sheet) THEN <<>>
    ELSE IF stop_empty_line /\ EmptyRow(i, Len(fields)) THEN <<>>
    ELSE <<[j \in 1..Min(Len(fields), Len(PhysRow(i))) |-> PhysRow(i)[j].value]>>
         \o SoloFrom(i + 1)

SoloRows == SoloFrom(IF has_header THEN skip_rows + 1 ELSE skip_rows)

IsPrefix(a, b) == Len(a) <= Len(b) /\ \A k \in 1..Len(a) : a[k] = b[k]

\* Text with each whitespace run replaced by one space.
RECURSIVE SqueezeFrom(_, _)
SqueezeFrom(t, i) ==
    IF i > Len(t) THEN <<>>
    ELSE IF t[i] \in Whitespace
         THEN (IF i > 1 /\ t[i - 1] \in Whitespace THEN SqueezeFrom(t, i + 1)
               ELSE <<" ">> \o SqueezeFrom(t, i + 1))
         ELSE <<t[i]>> \o SqueezeFrom(t, i + 1)

\* Text without the space it starts or ends with.
TrimOne(t) ==
    LET a == IF Len(t) > 0 /\ t[1] = " " THEN Tail(t) ELSE t
    IN IF Len(a) > 0 /\ a[Len(a)] = " " THEN SubSeq(a, 1, Len(a) - 1) ELSE a

\* Whitespace runs collapsed, none left at the ends.
Collapsed(t) == TrimOne(SqueezeFrom(t, 1))

--------------------------------------------------------------------------
\* C1: every tuple rows() yields has exactly field_count elements; a row
\* with fewer cells is padded with null at its end, a row with more cells
\* loses its extra trailing cells.
C1_FixedWidthPadded ==
    \A s \in Live : \A k \in 1..Len(scans[s].rows_out) :
        scans[s].rows_out[k] =
            [i \in 1..Len(fields) |->
                IF i <= Len(PhysRow(first_row + k - 1))
                THEN PhysRow(first_row + k - 1)[i].value ELSE VNone]

\* C2: first_row is skip_rows + 1 with a header and skip_rows without, and
\* the k-th row a scan has yielded is the physical row with index
\* first_row + k - 1: the rows from first_row on, in order, none skipped,
\* none before first_row.
C2_RowsFromFirstRow ==
    state # "new" =>
        /\ first_row = (IF has_header THEN skip_rows + 1 ELSE skip_rows)
        /\ \A s \in Live :
            /\ \A k \in 1..Len(scans[s].rows_out) :
                /\ first_row + k - 1 < Len(sheet)
                /\ scans[s].rows_out[k] =
                       RowValues(PhysRow(first_row + k - 1), Len(fields))
            /\ scans[s].pc = "suspended" =>
                   scans[s].cursor = first_row + Len(scans[s].rows_out)

C2_Witness ==
    \E s \in Live :
        /\ has_header /\ skip_rows >= 1
        /\ Len(scans[s].rows_out) >= 1

\* C3: with stop_empty_line a scan yields the in-scope rows before the first
\* one whose first field_count values are all empty, and nothing from that
\* row on; without it a scan yields every in-scope row, empty or not.
C3_StopAtFirstEmptyRow ==
    \A s \in Live :
        scans[s].pc \in {"suspended", "done"} =>
            LET stops == {i \in first_row..(Len(sheet) - 1) :
                            EmptyRow(i, Len(fields))}
                last == IF stop_empty_line /\ stops # {}
                        THEN CHOOSE i \in stops : \A j \in stops : i <= j
                        ELSE IF Len(sheet) > first_row THEN Len(sheet)
                        ELSE first_row
            IN /\ Len(scans[s].rows_out) <= last - first_row
               /\ scans[s].pc = "done" =>
                      Len(scans[s].rows_out) = last - first_row
               /\ \A k \in 1..Len(scans[s].rows_out) :
                      scans[s].rows_out[k] =
                          RowValues(PhysRow(first_row + k - 1), Len(fields))

C3_Witness ==
    \E s \in Live :
        /\ stop_empty_line
        /\ scans[s].pc = "done"
        /\ Len(scans[s].rows_out) >= 1
        /\ scans[s].cursor < Len(sheet)
        /\ ~EmptyRow(scans[s].cursor, Len(fields))

\* C4 as stated: with a header and no fields argument the number of
\* inferred fields is the number of cells of the first in-scope data row,
\* whatever the width of the header row.
C4_FieldCountIsRowWidth ==
    (state = "ready" /\ has_header /\ ~fields_arg.given) =>
        Len(fields) = Len(PhysRow(first_row))

\* C4 as amended: the number of inferred fields is the smaller of the widths
\* of the header row and of the first in-scope data row, and the i-th name
\* is the i-th header cell's text with its whitespace runs collapsed to one
\* space and none left at its ends.
C4_FieldCountIsMinWidth ==
    (state = "ready" /\ has_header /\ ~fields_arg.given) =>
        /\ Len(fields) = Min(Len(PhysRow(first_row - 1)), Len(PhysRow(first_row)))
        /\ \A i \in 1..Len(fields) :
               fields[i].name = Collapsed(PyStr(PhysRow(first_row - 1)[i].value))

C4_Witness ==
    /\ state = "ready" /\ has_header /\ ~fields_arg.given
    /\ Len(PhysRow(first_row - 1)) < Len(PhysRow(first_row))
    /\ Len(fields) >= 1
    /\ fields[1].name # PyStr(PhysRow(first_row - 1)[1].value)

\* C5 as stated: records() yields as many entries as its rows() scan, and in
\* the k-th record the i-th field name maps to the i-th value of the k-th
\* row, for every position i of the row.
C5_RecordPositional ==
    \A s \in Live :
        scans[s].kind = "records" =>
            /\ Len(scans[s].recs_out) = Len(scans[s].rows_out)
            /\ \A k \in 1..Len(scans[s].recs_out) :
                \A i \in 1..Len(scans[s].rows_out[k]) :
                    /\ fields[i].name \in DOMAIN scans[s].recs_out[k]
                    /\ scans[s].recs_out[k][fields[i].name] =
                           scans[s].rows_out[k][i]

\* C5 as amended: records() yields as many entries as its rows() scan; the
\* k-th record's keys are the names of the row's positions, and the i-th
\* field name maps to the i-th value for every position i whose name is not
\* repeated at a later position of the row (a repeated name keeps the value
\* of its last position).
C5_RecordLastWins ==
    \A s \in Live :
        scans[s].kind = "records" =>
            /\ Len(scans[s].recs_out) = Len(scans[s].rows_out)
            /\ \A k \in 1..Len(scans[s].recs_out) :
                LET row == scans[s].rows_out[k]
                    rec == scans[s].recs_out[k]
                IN /\ DOMAIN rec = {fields[i].name : i \in 1..Len(row)}
                   /\ \A i \in 1..Len(row) :
                        (\A j \in (i + 1)..Len(row) :
                             fields[j].name # fields[i].name)
                        => rec[fields[i].name] = row[i]

C5_Witness ==
    \E s \in Live :
        /\ scans[s].kind = "records"
        /\ Len(scans[s].recs_out) >= 1
        /\ Len(scans[s].rows_out[1]) = 2
        /\ fields[1].name = fields[2].name
        /\ scans[s].rows_out[1][1] # scans[s].rows_out[1][2]

\* C6 as stated: the length is the number of physical rows less first_row,
\* and it is the number of rows a finished scan without stop_empty_line
\* has yielded, also with a fields argument on a sheet of fewer than
\* first_row rows.
C6_LenIsRowCount ==
    len_result.called =>
        /\ len_result.value = Len(sheet) - first_row
        /\ \A s \in Live :
               (scans[s].pc = "done" /\ ~stop_empty_line) =>
                   Len(scans[s].rows_out) = len_result.value

\* C6 as amended: __len__ computes the number of physical rows less
\* first_row, whatever stop_empty_line is; on a sheet of at least first_row
\* rows that is the number of rows a finished scan without stop_empty_line
\* has yielded, and on a shorter sheet it is negative while the scan yields
\* no row.
C6_LenIsDifference ==
    len_result.called =>
        /\ len_result.value =
               Len(sheet) - (IF has_header THEN skip_rows + 1 ELSE skip_rows)
        /\ \A s \in Live :
               (scans[s].pc = "done" /\ ~stop_empty_line) =>
                   IF Len(sheet) >= first_row
                   THEN Len(scans[s].rows_out) = len_result.value
                   ELSE len_result.value < 0 /\ Len(scans[s].rows_out) = 0

C6_Witness ==
    /\ len_result.called
    /\ has_header
    /\ \E s \in Live :
           /\ scans[s].pc = "done" /\ ~stop_empty_line
           /\ Len(scans[s].rows_out) >= 2

\* C7: whenever a fields argument is supplied, also an empty list, the
\* constructor reads no row of the sheet and the field list is the
\* supplied one.
C7_OverrideSkipsInference ==
    (state # "new" /\ fields_arg.given) =>
        /\ state = "ready"
        /\ init_reads = 0
        /\ fields = fields_arg.list

\* C8: an inferred field's storage type is date when its reference-row
\* cell has the date flag, else the image of the cell's type tag in the
\* fixed table, and unknown for a tag outside the table.
C8_StorageTypes ==
    Inferred =>
        \A i \in 1..Len(fields) :
            LET c == PhysRow(first_row)[i] IN
            fields[i].storage_type =
                IF c.is_date THEN "date"
                ELSE CASE c.data_type = "s" -> "string"
                       [] c.data_type = "f" -> "unknown"
                       [] c.data_type = "n" -> "float"
                       [] c.data_type = "b" -> "boolean"
                       [] c.data_type = "inlineStr" -> "string"
                       [] c.data_type = "str" -> "string"
                       [] OTHER -> "unknown"

C8_Witness ==
    /\ Inferred
    /\ \E i \in 1..Len(fields) :
           /\ PhysRow(first_row)[i].is_date
           /\ PhysRow(first_row)[i].data_type = "b"

\* C9: on an extractor whose field list is empty, a call of rows() or
\* records() fails at once: no generator is handed out that has not raised.
C9_FailsAtCall ==
    \A s \in Live :
        (state = "ready" /\ Len(fields) = 0) => scans[s].pc = "raised"

\* What every scan has yielded, against the scan run alone.
ScansAsAlone ==
    \A s \in Live :
        /\ IsPrefix(scans[s].rows_out, SoloRows)
        /\ scans[s].pc = "done" => scans[s].rows_out = SoloRows
        /\ scans[s].pc = "raised" => Len(fields) = 0
        /\ scans[s].kind = "rows" => scans[s].recs_out = <<>>
        /\ scans[s].kind = "records" =>
               /\ Len(scans[s].recs_out) = Len(scans[s].rows_out)
               /\ \A k \in 1..Len(scans[s].recs_out) :
                      \A n \in DOMAIN scans[s].recs_out[k] :
                          \E i \in 1..Len(SoloRows[k]) :
                              /\ fields[i].name = n
                              /\ scans[s].recs_out[k][n] = SoloRows[k][i]

\* A step of a constructed extractor leaves its schema and first_row alone.
SchemaFixed ==
    state = "ready" => (fields' = fields /\ first_row' = first_row /\ state' = state)

\* C10: whatever the interleaving of the callers' steps, every scan has
\* yielded a prefix of the rows (and records) it yields when run alone, all
\* of them once it is finished, and no step after construction changes the
\* schema or first_row.
C10_ScansIndependent == [](ScansAsAlone) /\ [][SchemaFixed]_vars

C10_Witness ==
    /\ len_result.called
    /\ scans[1].pc = "suspended" /\ Len(scans[1].rows_out) = 1
    /\ scans[2].pc = "done" /\ Len(scans[2].rows_out) >= 2
    /\ scans[2].kind # scans[1].kind

====
